---- MODULE Spec2Model ----
(***************************************************************************)
(* Episode state machine and tile/track slicing of the CarRacing           *)
(* environment (src/src/movement_primitives/car_racing.py).                *)
(*                                                                         *)
(* Conventions                                                             *)
(*  - Python lists are 0-based; a TLA+ sequence s holds list element i at  *)
(*    s[i + 1].  PyAt and PySlice give Python's indexing and slicing,      *)
(*    negative indices included.                                           *)
(*  - Rewards are exact rationals.  Within one episode every amount the    *)
(*    code adds is a multiple of 1/(10 * len(self.track)), so reward,      *)
(*    prev_reward and step_reward hold the numerator over the denominator  *)
(*    RewardDen(track) = 10 * len(track).                                  *)
(*  - The physics backend (Box2D world, Car) is an external collaborator:  *)
(*    which contact callbacks fire during world.Step and where the hull    *)
(*    ends up are nondeterministic choices.                                *)
(*  - Rendering (tile colours, the observation) is left out; of road_poly  *)
(*    only which polygons it holds is kept.                                *)
(*  - Angles of checkpoints and of track points (alpha) are counted in      *)
(*    quarters of a sector, a sector being 2*pi/n_checkpoints: the full     *)
(*    turn is 4 * n units and 2*pi*c/n is 4 * c.  Headings (beta) are in    *)
(*    thousandths of a radian, positions in tenths of a length unit.        *)
(*  - A checkpoint (alpha, rad*cos(alpha), rad*sin(alpha)) is held in polar *)
(*    form <<alpha, rad>>.                                                  *)
(***************************************************************************)
EXTENDS Integers, Sequences, FiniteSets, Bags, TLC

(***************************************************************************)
(* Bounds of the model                                                     *)
(***************************************************************************)
\* calls of step (the priming call of reset included) explored per episode
MaxSteps == 3
\* failed generation attempts explored per reset
MaxRetries == 1
\* tiles one wheel overlaps at the same time
MaxTouching == 1
\* checkpoints per track (CHECKPOINTS = 12 in _create_track; load_checkpoints
\* and store_checkpoints take the number as their parameter n_checkpoints)
NCheckpoints == 3
\* points of the raw track the builder loop hands to the loop extraction
MaxRawLen == 8

\* longest closed loop the border detection is explored on
MaxBorderLen == 7
\* iteration budget of the builder loop where it is followed step by step
\* (no_freeze = 2500 in _create_track)
MaxIterations == 6
\* laps the builder loop must exceed to stop (laps > 4 in _create_track)
MaxLaps == 1

(***************************************************************************)
(* Program constants                                                       *)
(***************************************************************************)
\* Python's None (scenario key, heading offset)
None == -9999
\* PLAYFIELD = 2000 / SCALE with SCALE = 10.0
PLAYFIELD == 200
\* default of the constructor argument lap_complete_percent, in percent
DefaultLapCompletePercent == 95
\* BORDER_MIN_COUNT: length of the window of the border detection
BORDER_MIN_COUNT == 4
\* TRACK_RAD = 900 / SCALE
TRACK_RAD == 90
\* TRACK_DETAIL_STEP = 21 / SCALE, in tenths
TRACK_DETAIL_STEP == 21
\* TRACK_TURN_RATE = 0.31, in thousandths of a radian
TRACK_TURN_RATE == 310
\* self.start_alpha = 2 * math.pi * (-0.5) / n_checkpoints: minus half a sector
StartAlpha == -2
\* the empty line store_checkpoints writes between the two halves of its
\* file; float() raises ValueError on it
BlankLine == -8888
\* a heading of pi / 2, in thousandths of a radian
QuarterTurn == 1571

\* step(None): the priming call has no action
NoAction == <<>>
\* (steer, gas, brake) triples the caller passes to step; the actuators act
\* on the physics backend only, so one triple stands for all
Actions == {<<-1, 1, 0>>}

(***************************************************************************)
(* The scenario table.  Each entry keeps the fields the environment reads: *)
(* corners[c][0], corners[c][1] (tile range) and corners[c][3] (heading    *)
(* offset, here in thousandths of a radian).                               *)
(***************************************************************************)
Entry(lo, hi, angle) == [lo |-> lo, hi |-> hi, angle |-> angle]

corners ==
  (30 :> Entry(310, 348, 0)) @@ (40 :> Entry(0, 35, 0)) @@
  (50 :> Entry(228, 275, 0)) @@ (60 :> Entry(282, 333, -60)) @@
  (80 :> Entry(116, 169, 100)) @@ (85 :> Entry(58, 125, 0)) @@
  (90 :> Entry(50, 111, 0)) @@ (100 :> Entry(281, 345, 0)) @@
  (110 :> Entry(250, 297, -45)) @@ (130 :> Entry(128, 181, -45)) @@
  (135 :> Entry(145, 210, -190)) @@ (140 :> Entry(118, 181, 20)) @@
  (145 :> Entry(83, 142, -220)) @@ (147 :> Entry(252, 310, -185)) @@
  (150 :> Entry(185, 250, -85)) @@ (160 :> Entry(0, 110, -40)) @@
  (None :> Entry(0, -1, None)) @@
  (1 :> Entry(0, -1, 0)) @@ (2 :> Entry(0, -1, 0)) @@ (3 :> Entry(0, -1, 0)) @@
  (4 :> Entry(0, -1, 0)) @@ (5 :> Entry(0, -1, 0))

\* The same table with the tile ranges of the corner scenarios scaled down
\* to tracks of a few points, one entry per shape of entry: no scenario,
\* whole track (1), a range starting at tile 0 (40) and a range inside the
\* track, with a heading offset (60).
corners_scaled ==
  (None :> Entry(0, -1, None)) @@ (1 :> Entry(0, -1, 0)) @@
  (40 :> Entry(0, 2, 0)) @@ (60 :> Entry(1, 3, -60))

(***************************************************************************)
(* Python helpers                                                          *)
(***************************************************************************)
\* `if x:` for x an int or None
Truthy(x) == x # None /\ x # 0

\* s[i] for -len(s) <= i < len(s)
PyAt(s, i) == s[(i % Len(s)) + 1]

\* the bound b of a slice over a list of length n, as Python normalises it
PyBound(b, n) ==
  LET nb == IF b < 0 THEN b + n ELSE b
  IN IF nb < 0 THEN 0 ELSE IF nb > n THEN n ELSE nb

\* s[lo:hi]
PySlice(s, lo, hi) ==
  SubSeq(s, PyBound(lo, Len(s)) + 1, PyBound(hi, Len(s)))

\* range(lo, hi) as the sequence of its values
PyRange(lo, hi) == [k \in 1..(IF hi > lo THEN hi - lo ELSE 0) |-> lo + k - 1]

(***************************************************************************)
(* Track points and tiles                                                  *)
(***************************************************************************)
\* A TrackPoint (alpha, beta, x, y) as the Track Builder appends it.  The
\* finalized track handed to the tile builder is an input of this model:
\* point i of input track v has its own angle, heading and position, so
\* that points and slices of different positions are distinguishable.
TrackPoint(i, v) == <<i, 10 * v + i, 3 * i + v, -i>>

\* the local list `track` after the closed-loop extraction, n points
FinalizedTrack(n, v) == [k \in 1..n |-> TrackPoint(k - 1, v)]

\* `iter`: the indices the tile loop runs over
TileRange(tbl, c, trk) ==
  IF Truthy(c) /\ c > 10
    THEN PyRange(tbl[c].lo, tbl[c].hi)
    ELSE PyRange(0, Len(trk))

\* mutant of RoadTile: the tile is created with its visited flag set
RoadTileVisited(trk, i) ==
  [idx |-> i, road_visited |-> TRUE, road_friction |-> 1,
   quad |-> <<PyAt(trk, i), PyAt(trk, i - 1)>>]

\* the static body t built in iteration i of the tile loop: the quad spans
\* track[i] and track[i - 1]
RoadTile(trk, i) ==
  [idx |-> i, road_visited |-> FALSE, road_friction |-> 1,
   quad |-> <<PyAt(trk, i), PyAt(trk, i - 1)>>]

\* corners[corner_num] of the tile range raises KeyError for an identifier
\* above 10 that is not a key of the table
TileRangeRaises(tbl, c) == Truthy(c) /\ c > 10 /\ c \notin DOMAIN tbl

\* corners[corner_num] of the slice raises KeyError for any truthy
\* identifier that is not a key of the table
ExposedTrackRaises(tbl, c) == Truthy(c) /\ c \notin DOMAIN tbl

\* track[i] raises IndexError for an index past the end of the list
TileLoopRaises(tbl, c, trk) ==
  \E k \in DOMAIN TileRange(tbl, c, trk) : TileRange(tbl, c, trk)[k] >= Len(trk)

\* mutant of CreatedTiles: the tiles are numbered from 0 in emission order
CreatedTilesRenumbered(tbl, c, trk) ==
  LET rng == TileRange(tbl, c, trk)
      ok  == SelectSeq(rng, LAMBDA i : i < Len(trk))
  IN [k \in DOMAIN ok |-> [RoadTile(trk, ok[k]) EXCEPT !.idx = k - 1]]

\* self.road after the tile loop (up to the iteration that raises, if any)
CreatedTiles(tbl, c, trk) ==
  LET rng == TileRange(tbl, c, trk)
      ok  == SelectSeq(rng, LAMBDA i : i < Len(trk))
  IN [k \in DOMAIN ok |-> RoadTile(trk, ok[k])]

\* mutant of ExposedTrack: the slice stops one point early
ExposedTrackShort(tbl, c, trk) ==
  IF Truthy(c) THEN PySlice(trk, tbl[c].lo, tbl[c].hi - 1) ELSE trk

\* self.track: the track exposed to the episode state machine
ExposedTrack(tbl, c, trk) ==
  IF Truthy(c) THEN PySlice(trk, tbl[c].lo, tbl[c].hi) ELSE trk

\* Car(self.world, *self.track[0][1:4], add_angle=corners[...][3])
NewCar(tbl, c, trk) ==
  [init_angle |-> PyAt(trk, 0)[2], init_x |-> PyAt(trk, 0)[3],
   init_y |-> PyAt(trk, 0)[4], add_angle |-> tbl[c].angle,
   steer |-> 0, gas |-> 0, brake |-> 0]

(***************************************************************************)
(* Rewards, as numerators over RewardDen(track)                            *)
(***************************************************************************)
RewardDen(trk) == 10 * Len(trk)

\* 1000.0 / len(self.env.track)
TileCredit(trk) == (1000 * RewardDen(trk)) \div Len(trk)

\* the 0.1 subtracted per action step
StepPenalty(trk) == RewardDen(trk) \div 10

\* step_reward = -100
OutReward(trk) == -100 * RewardDen(trk)

\* abs(x) > PLAYFIELD or abs(y) > PLAYFIELD
Abs(x) == IF x < 0 THEN -x ELSE x

\* mutant of OutOfPlayfield: only the x axis is tested
OutOfPlayfieldXOnly(pos) == Abs(pos[1]) > PLAYFIELD

OutOfPlayfield(pos) == Abs(pos[1]) > PLAYFIELD \/ Abs(pos[2]) > PLAYFIELD

\* self.tile_visited_count / len(self.track) > self.lap_complete_percent
LapFractionExceeded(count, trk, pct) == count * 100 > pct * Len(trk)

(***************************************************************************)
(* State                                                                   *)
(***************************************************************************)
VARIABLES
  corner_num,            \* constructor argument: scenario identifier or None
  lap_complete_percent,  \* constructor argument, in percent
  pc,                    \* where the environment is: "idle" between calls,
                         \* "create_track" / "place_car" inside reset,
                         \* "world" inside world.Step of a step call,
                         \* "error" after an uncaught exception
  attempts,              \* failed attempts of the running retry loop
  gen_track,             \* the local list `track` of the last _create_track
  road,                  \* self.road: the tile bodies
  track,                 \* self.track
  car,                   \* self.car: <<>> for None, else <<the car>>
  car_tiles,             \* the `tiles` set of each wheel, as tile indices
  hull_position,         \* car.hull.position as the last step call read it
                         \* after world.Step; <<>> while the physics backend
                         \* is integrating it, or when there is no car
  reward,                \* self.reward
  prev_reward,           \* self.prev_reward
  tile_visited_count,    \* self.tile_visited_count
  t,                     \* self.t, in frames of 1 / FPS
  new_lap,               \* self.new_lap
  fd_env_new_lap,        \* the attribute env_new_lap of the FrictionDetector
  action,                \* argument of the running (or last) step call
  in_reset,              \* the running (or last) step call was made by reset
  step_reward,           \* local of step: the reward the call returns
  done,                  \* local of step: the done flag the call returns
  returned,              \* last call that returned: "none", "reset", "step"
  frames,                \* action steps returned since the last reset
  reward_sum,            \* sum of their step rewards
  out_seen,              \* one of them found the car out of the playfield
  done_seen,             \* one of them returned done = True
  full_frame,            \* the first of them that ended with every tile of
                         \* the track counted (0: none yet)
  contact_exit,          \* how the last callback of the running world.Step
                         \* left _contact ("none": no callback yet)
  lap_met,               \* the lap condition of _contact held at a credit
                         \* since the last reset
  sim_params_path,       \* constructor argument: None or a parameter file
  start_alpha,           \* self.start_alpha (None while the attribute is unset)
  gen_pc,                \* position inside _create_track: "checkpoints",
                         \* "build", "loop" (inside the builder loop, where
                         \* it is followed), "extract", "glue", "border",
                         \* "tiles"
  checkpoints,           \* local of _create_track, <<>> once the builder
                         \* loop has consumed it
  stored_params,         \* lines store_checkpoints last wrote to its file
  raw_track,             \* local `track` as the builder loop leaves it
  border,                \* local `border` of _create_track
  built,                 \* parameter-file mode: <<>> or <<checkpoints, raw
                         \* track>>, what the builder loop last computed,
                         \* and from what
  first_gen,             \* parameter-file mode: <<>> or <<outcome of the
                         \* first generation attempt of this environment>>
  last_gen,              \* parameter-file mode: <<>> or <<outcome of the
                         \* latest generation attempt>>
  last_tile,             \* self.last_tile of the legacy environment
                         \* (src/test.py); FALSE in the current one, which
                         \* has no such attribute
  world_bodies,          \* the bodies of self.world (Box2D): a bag of
                         \* Body("tile", idx), Body("wheel", w) and the hull
  road_poly,             \* self.road_poly: <<"road", idx>> per tile polygon,
                         \* <<"kerb", idx>> per red-white border polygon
  builder                \* locals of the builder loop of _create_track
                         \* (dest_i, laps, no_freeze, visited_other_side and
                         \* the alpha of the iteration); <<>> before the
                         \* first loop that is followed step by step

gen_vars == <<sim_params_path, start_alpha, gen_pc, checkpoints, stored_params,
              raw_track, border, built, first_gen, last_gen, builder>>

world_vars == <<world_bodies, road_poly>>

vars == <<corner_num, lap_complete_percent, pc, attempts, gen_track, road,
          track, car, car_tiles, hull_position, reward, prev_reward, tile_visited_count, t,
          new_lap, fd_env_new_lap, action, in_reset, step_reward, done,
          returned, frames, reward_sum, out_seen, done_seen, contact_exit,
          lap_met, gen_vars, world_vars, last_tile, full_frame>>

config_vars == <<corner_num, lap_complete_percent>>
counter_vars == <<reward, prev_reward, tile_visited_count, t, new_lap>>
return_vars == <<step_reward, done, returned>>
history_vars == <<frames, reward_sum, out_seen, done_seen, full_frame>>
contact_vars == <<contact_exit, lap_met>>

\* the car parts that carry a `tiles` set (one wheel is modelled)
Wheels == {"wheel"}

\* userData of the bodies of a contact: a road tile (id = its position in
\* self.road), a wheel (it has a `tiles` set) or the hull (it has none);
\* Body("none", "none") stands for Python's None
Body(kind, id) == [kind |-> kind, id |-> id]

\* the static bodies of the tiles of a road list, as the world holds them
\* (id = t.idx)
TileBodies(rd) == SetToBag({Body("tile", rd[k].idx) : k \in DOMAIN rd})

\* the bodies Car(...) creates and car.destroy() destroys
CarBodies == SetToBag({Body("wheel", w) : w \in Wheels} \cup {Body("hull", "hull")})

\* mutant of DestroyWorld: the car is left in the world
DestroyWorldKeepsCar(w, rd) ==
  IF rd = <<>> THEN w ELSE w (-) TileBodies(rd)

\* self.world after _destroy()
DestroyWorld(w, rd) ==
  IF rd = <<>> THEN w ELSE (w (-) TileBodies(rd)) (-) CarBodies

\* the entries the tile loop appends to self.road_poly for the tiles rd,
\* given the border flags brd (none: no sample is flagged)
RECURSIVE RoadPolys(_, _)
RoadPolys(rd, brd) ==
  IF rd = <<>> THEN <<>>
  ELSE IF Len(rd) = 1
    THEN <<<<"road", rd[1].idx>>>>
           \o (IF brd # <<>> /\ PyAt(brd, rd[1].idx)
                 THEN <<<<"kerb", rd[1].idx>>>> ELSE <<>>)
    ELSE LET half == Len(rd) \div 2
         IN RoadPolys(SubSeq(rd, 1, half), brd)
              \o RoadPolys(SubSeq(rd, half + 1, Len(rd)), brd)

\* identifiers that are no key of the scenario table: falsy, at most 10,
\* above 10
UnknownScenarios == {0, 7, 77}

\* constructor arguments (corner_num, lap_complete_percent) explored: every
\* scenario of the table and the unknown identifiers with the default
\* percentage, and no scenario with a percentage that a short track can
\* exceed before its last tile
Configs(tbl) ==
  {<<c, DefaultLapCompletePercent>> : c \in DOMAIN tbl \cup UnknownScenarios}
    \cup {<<None, 50>>}

\* lengths of the finalized track explored with the scaled table: the
\* shortest track the border detection accepts (its window reads
\* track[i - BORDER_MIN_COUNT], an IndexError on a shorter list)
TrackLens == {BORDER_MIN_COUNT}

\* hull positions the physics backend may report after world.Step: on the
\* boundary of the playfield (still inside) and outside on either axis
HullPositions ==
  {<<PLAYFIELD, -PLAYFIELD>>, <<PLAYFIELD + 1, 0>>, <<0, -(PLAYFIELD + 1)>>}

(***************************************************************************)
(* CarRacing.__init__                                                      *)
(***************************************************************************)
InitWith(tbl) ==
  /\ \E cfg \in Configs(tbl) :
       corner_num = cfg[1] /\ lap_complete_percent = cfg[2]
  /\ pc = "idle"
  /\ attempts = 0
  /\ gen_track = <<>>
  /\ road = <<>>
  /\ track = <<>>
  /\ car = <<>>
  /\ car_tiles = [w \in Wheels |-> {}]
  /\ hull_position = <<>>
  /\ reward = 0
  /\ prev_reward = 0
  /\ tile_visited_count = 0
  /\ t = 0
  /\ new_lap = FALSE
  /\ fd_env_new_lap = FALSE
  /\ action = NoAction
  /\ in_reset = FALSE
  /\ step_reward = 0
  /\ done = FALSE
  /\ returned = "none"
  /\ frames = 0
  /\ reward_sum = 0
  /\ out_seen = FALSE
  /\ done_seen = FALSE
  /\ full_frame = 0
  /\ contact_exit = "none"
  /\ lap_met = FALSE
  /\ world_bodies = EmptyBag
  /\ road_poly = <<>>
  /\ last_tile = FALSE

(***************************************************************************)
(* CarRacing.reset, up to the retry loop: _destroy and the counters        *)
(***************************************************************************)
Reset ==
  /\ pc = "idle"
  /\ road' = <<>>
  /\ car' = <<>>
  /\ car_tiles' = [w \in Wheels |-> {}]
  /\ hull_position' = <<>>
  /\ reward' = 0
  /\ prev_reward' = 0
  /\ tile_visited_count' = 0
  /\ t' = 0
  /\ new_lap' = FALSE
  /\ attempts' = 0
  /\ frames' = 0
  /\ reward_sum' = 0
  /\ out_seen' = FALSE
  /\ done_seen' = FALSE
  /\ full_frame' = 0
  /\ lap_met' = FALSE
  /\ world_bodies' = DestroyWorld(world_bodies, road)
  /\ road_poly' = <<>>
  /\ pc' = "create_track"
  /\ UNCHANGED <<config_vars, last_tile, gen_track, track, fd_env_new_lap, action,
                 in_reset, return_vars, contact_exit, gen_vars>>

(***************************************************************************)
(* CarRacing._create_track, one attempt of the retry loop                  *)
(***************************************************************************)
\* the attempt returns False (no loop found, or ends not glued together)
CreateTrackFail ==
  /\ pc = "create_track"
  /\ attempts < MaxRetries
  /\ attempts' = attempts + 1
  /\ road' = <<>>
  /\ UNCHANGED <<config_vars, last_tile, pc, gen_track, track, car, car_tiles,
                 hull_position, counter_vars, fd_env_new_lap, action, in_reset, return_vars,
                 history_vars, contact_vars, gen_vars, world_vars>>

\* the attempt finds the finalized track trk and builds the tiles
CreateTrackOn(tbl, trk) ==
  /\ pc = "create_track"
  /\ attempts' = 0
  /\ gen_track' = trk
  /\ road' = IF TileRangeRaises(tbl, corner_num) THEN <<>>
             ELSE CreatedTiles(tbl, corner_num, trk)
  /\ IF \/ TileRangeRaises(tbl, corner_num)
        \/ TileLoopRaises(tbl, corner_num, trk)
        \/ ExposedTrackRaises(tbl, corner_num)
       THEN pc' = "error" /\ track' = track
       ELSE pc' = "place_car" /\ track' = ExposedTrack(tbl, corner_num, trk)
  /\ world_bodies' = world_bodies (+) TileBodies(road')
  /\ road_poly' = road_poly \o RoadPolys(road', border)
  /\ UNCHANGED <<config_vars, last_tile, car, car_tiles, hull_position, counter_vars,
                 fd_env_new_lap, action, in_reset, return_vars, history_vars, contact_vars>>

(***************************************************************************)
(* CarRacing.reset after the retry loop: the car, then step(None)          *)
(***************************************************************************)
PlaceCarWith(tbl) ==
  /\ pc = "place_car"
  /\ IF track = <<>> \/ corner_num \notin DOMAIN tbl
       THEN /\ pc' = "error"
            /\ UNCHANGED <<car, action, in_reset, world_bodies>>
       ELSE /\ car' = <<NewCar(tbl, corner_num, track)>>
            /\ world_bodies' = world_bodies (+) CarBodies
            /\ action' = NoAction
            /\ in_reset' = TRUE
            /\ pc' = "world"
  /\ UNCHANGED <<config_vars, last_tile, attempts, gen_track, road, track, car_tiles,
                 hull_position, counter_vars, fd_env_new_lap, return_vars,
                 history_vars, contact_vars, road_poly>>

(***************************************************************************)
(* FrictionDetector._contact                                               *)
(***************************************************************************)
Bodies ==
  {Body("tile", k) : k \in DOMAIN road} \cup {Body("wheel", w) : w \in Wheels}
    \cup {Body("hull", "hull")}

\* u and "road_friction" in u.__dict__
IsTile(u) == u.kind = "tile"

\* `tile` after the two ifs: the second assignment wins
ContactTile(u1, u2) ==
  IF IsTile(u2) THEN u2 ELSE IF IsTile(u1) THEN u1 ELSE Body("none", "none")

\* `obj` after the two ifs
ContactObj(u1, u2) ==
  IF IsTile(u2) THEN u1 ELSE IF IsTile(u1) THEN u2 ELSE Body("none", "none")

\* the callback gets past both early returns
ReachesTileLogic(u1, u2) ==
  /\ IsTile(ContactTile(u1, u2))
  /\ ContactObj(u1, u2).kind = "wheel"

\* mutant of CreditsTile: the visited flag is not consulted
CreditsTileAlways(begin, u1, u2) ==
  /\ ReachesTileLogic(u1, u2)
  /\ begin

\* the callback credits the tile: begin and not tile.road_visited
CreditsTile(begin, u1, u2) ==
  /\ ReachesTileLogic(u1, u2)
  /\ begin
  /\ ~road[ContactTile(u1, u2).id].road_visited

\* the lap condition tested after the tile was credited
LapCondition(tile, count) ==
  /\ tile.idx = 0
  /\ LapFractionExceeded(count, track, lap_complete_percent)

\* Box2D reports contacts between two different bodies that are not both
\* static, BeginContact for a pair that was not touching and EndContact
\* for a pair that was; a wheel overlaps at most MaxTouching tiles at a time
PhysicsAllows(begin, u1, u2) ==
  /\ u1 # u2
  /\ ~(IsTile(u1) /\ IsTile(u2))
  /\ ReachesTileLogic(u1, u2) =>
       /\ begin <=> ContactTile(u1, u2).id \notin car_tiles[ContactObj(u1, u2).id]
       /\ begin => Cardinality(car_tiles[ContactObj(u1, u2).id]) < MaxTouching

\* the path the callback takes through _contact
ContactExit(begin, u1, u2) ==
  IF ~IsTile(ContactTile(u1, u2)) THEN "no_tile"
  ELSE IF ~ReachesTileLogic(u1, u2) THEN "no_tiles_set"
  ELSE IF ~begin THEN "removed"
  ELSE IF CreditsTile(begin, u1, u2) THEN "credited"
  ELSE "already_visited"

\* mutant of ContactEvent: the tile is credited before the test that the
\* other body has a tiles set
ContactEventAnyBody(begin, u1, u2) ==
  /\ pc = "world"
  /\ PhysicsAllows(begin, u1, u2)
  /\ contact_exit' = ContactExit(begin, u1, u2)
  /\ car_tiles' =
       IF ReachesTileLogic(u1, u2)
         THEN [car_tiles EXCEPT ![ContactObj(u1, u2).id] =
                 IF begin THEN @ \cup {ContactTile(u1, u2).id}
                 ELSE @ \ {ContactTile(u1, u2).id}]
         ELSE car_tiles
  /\ IF /\ IsTile(ContactTile(u1, u2))
        /\ begin
        /\ ~road[ContactTile(u1, u2).id].road_visited
       THEN LET k == ContactTile(u1, u2).id
            IN /\ road' = [road EXCEPT ![k].road_visited = TRUE]
               /\ reward' = reward + TileCredit(track)
               /\ tile_visited_count' = tile_visited_count + 1
               /\ IF LapCondition(road[k], tile_visited_count + 1)
                    THEN fd_env_new_lap' = TRUE /\ lap_met' = TRUE
                    ELSE UNCHANGED <<fd_env_new_lap, lap_met>>
       ELSE UNCHANGED <<road, reward, tile_visited_count, fd_env_new_lap,
                        lap_met>>
  /\ UNCHANGED <<config_vars, last_tile, pc, attempts, gen_track, track, car,
                 hull_position, prev_reward, t, new_lap, action, in_reset, return_vars, history_vars>>

ContactEvent(begin, u1, u2) ==
  /\ pc = "world"
  /\ PhysicsAllows(begin, u1, u2)
  /\ contact_exit' = ContactExit(begin, u1, u2)
  /\ IF ReachesTileLogic(u1, u2)
       THEN LET k == ContactTile(u1, u2).id
                w == ContactObj(u1, u2).id
            IN /\ car_tiles' =
                    [car_tiles EXCEPT ![w] = IF begin THEN @ \cup {k} ELSE @ \ {k}]
               /\ IF CreditsTile(begin, u1, u2)
                    THEN /\ road' = [road EXCEPT ![k].road_visited = TRUE]
                         /\ reward' = reward + TileCredit(track)
                         /\ tile_visited_count' = tile_visited_count + 1
                         /\ IF LapCondition(road[k], tile_visited_count + 1)
                              THEN fd_env_new_lap' = TRUE /\ lap_met' = TRUE
                              ELSE UNCHANGED <<fd_env_new_lap, lap_met>>
                    ELSE UNCHANGED <<road, reward, tile_visited_count,
                                     fd_env_new_lap, lap_met>>
       ELSE UNCHANGED <<car_tiles, road, reward, tile_visited_count,
                        fd_env_new_lap, lap_met>>
  /\ UNCHANGED <<config_vars, last_tile, pc, attempts, gen_track, track, car,
                 hull_position, prev_reward, t, new_lap, action, in_reset, return_vars, history_vars>>

\* BeginContact / EndContact fired by world.Step
Contact ==
  /\ \E begin \in BOOLEAN, u1 \in Bodies, u2 \in Bodies :
       ContactEvent(begin, u1, u2)
  /\ UNCHANGED <<gen_vars, world_vars>>

(***************************************************************************)
(* CarRacing.step                                                          *)
(***************************************************************************)
\* the caller's call: actuators, car.step, then world.Step starts
StepCall(a) ==
  /\ pc = "idle"
  /\ returned # "none"
  /\ car # <<>>
  /\ t < MaxSteps
  /\ car' = IF a = NoAction THEN car
            ELSE <<[car[1] EXCEPT !.steer = -a[1], !.gas = a[2], !.brake = a[3]]>>
  /\ hull_position' = <<>>
  /\ action' = a
  /\ in_reset' = FALSE
  /\ step_reward' = 0
  /\ done' = FALSE
  /\ pc' = "world"
  /\ UNCHANGED <<config_vars, last_tile, attempts, gen_track, road, track, car_tiles,
                 counter_vars, fd_env_new_lap, returned, history_vars,
                 contact_vars>>

\* the caller always passes an action; step(None) is the call reset makes
Step ==
  /\ \E a \in Actions : StepCall(a)
  /\ UNCHANGED <<gen_vars, world_vars>>

\* self.reward after `self.reward -= 0.1` (action steps only)
RewardAfterStep(a, rew, trk) ==
  IF a # NoAction THEN rew - StepPenalty(trk) ELSE rew

\* mutant of StepDone: the all-tiles test is missing
StepDoneNoTiles(a, count, trk, lap, pos) ==
  /\ a # NoAction
  /\ \/ lap
     \/ OutOfPlayfield(pos)

\* mutant of StepDone: the termination tests run without an action too
StepDoneAlsoPriming(a, count, trk, lap, pos) ==
  \/ count = Len(trk)
  \/ lap
  \/ OutOfPlayfield(pos)

\* the done flag the step returns
StepDone(a, count, trk, lap, pos) ==
  /\ a # NoAction
  /\ \/ count = Len(trk)
     \/ lap
     \/ OutOfPlayfield(pos)

\* mutant of StepReward: the cumulative reward is returned, not its delta
StepRewardTotal(a, rew, prev, trk, pos) ==
  IF a = NoAction THEN 0
  ELSE IF OutOfPlayfield(pos) THEN OutReward(trk)
  ELSE RewardAfterStep(a, rew, trk)

\* the step reward the step returns
StepReward(a, rew, prev, trk, pos) ==
  IF a = NoAction THEN 0
  ELSE IF OutOfPlayfield(pos) THEN OutReward(trk)
  ELSE RewardAfterStep(a, rew, trk) - prev

\* mutant of PrevRewardAfterStep: the snapshot is taken without an action too
PrevRewardAlways(a, rew, prev, trk) == RewardAfterStep(a, rew, trk)

\* self.prev_reward after the step
PrevRewardAfterStep(a, rew, prev, trk) ==
  IF a # NoAction THEN RewardAfterStep(a, rew, trk) ELSE prev

\* world.Step is over with the hull at pos: the rest of step
StepEndAt(pos) ==
  /\ pc = "world"
  /\ hull_position' = pos
  /\ t' = t + 1
  /\ reward' = RewardAfterStep(action, reward, track)
  /\ prev_reward' = PrevRewardAfterStep(action, reward, prev_reward, track)
  /\ step_reward' = StepReward(action, reward, prev_reward, track, pos)
  /\ done' = StepDone(action, tile_visited_count, track, new_lap, pos)
  /\ returned' = IF in_reset THEN "reset" ELSE "step"
  /\ frames' = IF action # NoAction THEN frames + 1 ELSE frames
  /\ reward_sum' = reward_sum + step_reward'
  /\ out_seen' = (out_seen \/ (action # NoAction /\ OutOfPlayfield(pos)))
  /\ done_seen' = (done_seen \/ done')
  /\ full_frame' = IF full_frame = 0 /\ action # NoAction
                       /\ tile_visited_count = Len(track)
                    THEN frames + 1 ELSE full_frame
  /\ contact_exit' = "none"
  /\ pc' = "idle"
  /\ UNCHANGED <<config_vars, last_tile, attempts, gen_track, road, track, car, car_tiles,
                 tile_visited_count, new_lap, fd_env_new_lap, action, in_reset,
                 lap_met>>

StepEnd ==
  /\ \E pos \in HullPositions : StepEndAt(pos)
  /\ UNCHANGED <<gen_vars, world_vars>>

(***************************************************************************)
(* Specification: episodes under the scaled scenario table                 *)
(***************************************************************************)
\* the generator before its first run; in this specification its stages are
\* not followed, the finalized track being an input of CreateTrack
GeneratorIdle ==
  /\ start_alpha = None
  /\ gen_pc = "checkpoints"
  /\ checkpoints = <<>>
  /\ stored_params = <<>>
  /\ raw_track = <<>>
  /\ border = <<>>
  /\ built = <<>>
  /\ first_gen = <<>>
  /\ last_gen = <<>>
  /\ builder = <<>>

Init ==
  /\ InitWith(corners_scaled)
  /\ sim_params_path = None
  /\ GeneratorIdle

CreateTrack ==
  /\ \E n \in TrackLens : CreateTrackOn(corners_scaled, FinalizedTrack(n, 1))
  /\ UNCHANGED gen_vars

PlaceCar == PlaceCarWith(corners_scaled) /\ UNCHANGED gen_vars

Next ==
  \/ Reset
  \/ CreateTrackFail
  \/ CreateTrack
  \/ PlaceCar
  \/ Step
  \/ Contact
  \/ StepEnd

Spec == Init /\ [][Next]_vars

(***************************************************************************)
(* Specification: track slicing and car placement under the scenario table *)
(* of the source.  It follows reset from the constructor to the point      *)
(* where the car stands on the track and the priming step begins.          *)
(***************************************************************************)
\* lengths of the finalized track explored with the table of the source:
\* one point short of scenario 85's range, exactly its end, and longer
\* than every range of the table
SliceTrackLens == {124, 125, 348}

\* input tracks explored per length
SliceTrackVariants == {1, 2}

InitSlice ==
  /\ InitWith(corners)
  /\ sim_params_path = None
  /\ GeneratorIdle

CreateTrackSlice ==
  /\ \E n \in SliceTrackLens, v \in SliceTrackVariants :
       CreateTrackOn(corners, FinalizedTrack(n, v))
  /\ UNCHANGED gen_vars

PlaceCarSlice == PlaceCarWith(corners) /\ UNCHANGED gen_vars

NextSlice ==
  \/ Reset
  \/ CreateTrackFail
  \/ CreateTrackSlice
  \/ PlaceCarSlice

SpecSlice == InitSlice /\ [][NextSlice]_vars

(***************************************************************************)
(* Checkpoints: load_checkpoints and store_checkpoints                     *)
(***************************************************************************)
\* 2 * math.pi * c / n_checkpoints
SectorAngle(c) == 4 * c

\* 1.5 * TRACK_RAD
PinnedRad == (3 * TRACK_RAD) \div 2

\* mutant of Checkpoint: the last checkpoint is not pinned
CheckpointLastFree(c, n, noise, rad) ==
  <<IF c = 0 THEN 0 ELSE SectorAngle(c) + noise,
    IF c = 0 THEN PinnedRad ELSE rad>>

\* the checkpoint appended in iteration c of either generator loop
Checkpoint(c, n, noise, rad) ==
  <<IF c = n - 1 THEN SectorAngle(c)
    ELSE IF c = 0 THEN 0 ELSE SectorAngle(c) + noise,
    IF c = 0 \/ c = n - 1 THEN PinnedRad ELSE rad>>

\* float(s.strip()) raises ValueError on one of the lines
Unparsable(ls) == \E k \in DOMAIN ls : ls[k] = BlankLine

\* noise = [... for s in lines[:n_checkpoints]]
LoadNoise(n, lines) == PySlice(lines, 0, n)

\* rad = [... for s in lines[-n_checkpoints:]]
LoadRad(n, lines) == PySlice(lines, -n, Len(lines))

\* load_checkpoints raises: ValueError in a comprehension, or IndexError at
\* noise[c] when the file has fewer than n_checkpoints lines
LoadRaises(n, lines) ==
  \/ Unparsable(LoadNoise(n, lines))
  \/ Unparsable(LoadRad(n, lines))
  \/ Len(LoadNoise(n, lines)) < n

\* the list load_checkpoints returns
LoadCheckpoints(n, lines) ==
  [k \in 1..n |->
     Checkpoint(k - 1, n, LoadNoise(n, lines)[k], LoadRad(n, lines)[k])]

\* the list store_checkpoints returns for the drawn noise and rad values
StoreCheckpoints(n, noise, rad) ==
  [k \in 1..n |-> Checkpoint(k - 1, n, noise[k], rad[k])]

\* the lines store_checkpoints writes: the drawn noise values, an empty
\* line, the rad values as used
StoredLines(n, noise, rad) ==
  noise \o <<BlankLine>> \o
    [k \in 1..n |-> Checkpoint(k - 1, n, noise[k], rad[k])[2]]

\* values np_random.uniform(0, 2*pi/n) and np_random.uniform(TRACK_RAD/3,
\* TRACK_RAD) may return (the lower end included, the upper end not)
NoiseDraws == {0, 3}
RadDraws == {TRACK_RAD \div 3, TRACK_RAD - 1}

\* parameter files, by path.  Path k in 1..2n+2 holds k - 1 numeric lines
\* (line j holds the value j); path 2n+3 is a file as store_checkpoints
\* writes it; path 2n+4 is such a file with its last line missing; path
\* 2n+5 is a file in the same format whose jitter exceeds one sector.
NumericFile(k) == [j \in 1..k |-> j]

ParamFile(n, path) ==
  IF path <= 2 * n + 2 THEN NumericFile(path - 1)
  ELSE IF path = 2 * n + 3
    THEN StoredLines(n, [k \in 1..n |-> 1], [k \in 1..n |-> TRACK_RAD \div 3])
  ELSE IF path = 2 * n + 4
    THEN PySlice(StoredLines(n, [k \in 1..n |-> 1],
                             [k \in 1..n |-> TRACK_RAD \div 3]), 0, 2 * n)
  ELSE StoredLines(n, [k \in 1..n |-> SectorAngle(1) + 1],
                   [k \in 1..n |-> TRACK_RAD \div 3])

ParamPaths(n) == 1..(2 * n + 5)

\* what one generation attempt produced: how it ended ("ok", "failed" for
\* return False, "error" for an exception), the finalized track, the tile
\* indices and the border flags
Outcome(how, trk, tiles, brd) ==
  [how |-> how, track |-> trk, idx |-> [k \in DOMAIN tiles |-> tiles[k].idx],
   border |-> brd]

\* the attempt is over with outcome o
EndAttempt(o) ==
  /\ first_gen' = IF Truthy(sim_params_path) /\ first_gen = <<>>
                    THEN <<o>> ELSE first_gen
  /\ last_gen' = IF Truthy(sim_params_path) THEN <<o>> ELSE last_gen

\* the head of _create_track: the checkpoints, then self.road = []
GenCheckpointsWith(n, noises, rads) ==
  /\ pc = "create_track"
  /\ gen_pc = "checkpoints"
  /\ IF Truthy(sim_params_path)
       THEN /\ IF LoadRaises(n, ParamFile(n, sim_params_path))
                 THEN /\ pc' = "error"
                      /\ EndAttempt(Outcome("error", <<>>, <<>>, <<>>))
                      /\ UNCHANGED <<checkpoints, start_alpha, gen_pc, road>>
                 ELSE /\ checkpoints' =
                           LoadCheckpoints(n, ParamFile(n, sim_params_path))
                      /\ start_alpha' = StartAlpha
                      /\ gen_pc' = "build"
                      /\ road' = <<>>
                      /\ pc' = pc
                      /\ UNCHANGED <<first_gen, last_gen>>
            /\ UNCHANGED stored_params
       ELSE \E noise \in [1..n -> noises], rad \in [1..n -> rads] :
              /\ checkpoints' = StoreCheckpoints(n, noise, rad)
              /\ stored_params' = StoredLines(n, noise, rad)
              /\ start_alpha' = StartAlpha
              /\ gen_pc' = "build"
              /\ road' = <<>>
              /\ pc' = pc
              /\ UNCHANGED <<first_gen, last_gen>>
  /\ UNCHANGED <<config_vars, last_tile, attempts, gen_track, track, car, car_tiles,
                 hull_position, counter_vars, fd_env_new_lap, action, in_reset,
                 return_vars, history_vars, contact_vars, sim_params_path, builder, world_vars,
                 raw_track, border, built>>

(***************************************************************************)
(* The builder loop.  Its floating-point kinematics is not followed: the   *)
(* loop initialises every local it uses and reads nothing but the          *)
(* checkpoints, so its result is a function of them.  Which function is    *)
(* left open: the raw track is any track of the family below, and the same *)
(* checkpoints as last time give the same raw track as last time.  Only    *)
(* parameter-file mode presents the same checkpoints twice; a sample of    *)
(* random mode is a fresh draw of np_random.                               *)
(***************************************************************************)
\* a raw track with the given alphas, every heading beta (shape[1]) plus
\* turn (shape[4]) per point, and the position drifting by (shape[2],
\* shape[3]) per point
RawTrackOf(alphas, shape) ==
  [k \in DOMAIN alphas |->
     <<alphas[k], shape[1] + shape[4] * (k - 1),
       shape[2] * (k - 1), shape[3] * (k - 1)>>]

\* <<beta, dx, dy, turn>>: closed, gap of exactly one step after three
\* points, gap larger than one step, gaps along the axis the first heading
\* gives no weight / full weight, and a track that keeps turning
RawShapes ==
  {<<0, 0, 0, 0>>, <<0, 7, 0, 0>>, <<0, 8, 0, 0>>,
   <<QuarterTurn, 8, 0, 0>>, <<QuarterTurn, 0, 8, 0>>,
   <<0, 0, 0, QuarterTurn>>}

\* alphas at the start angle (not yet past it) and just past it
RawAlphas == {StartAlpha, StartAlpha + 1}

RawTracks(len) ==
  {RawTrackOf(a, sh) : a \in [1..len -> RawAlphas], sh \in RawShapes}

\* a smaller family: one track that never passes the start angle, and the
\* tracks of every shape that pass it at their second and at their last point
LoopAlphas(len) ==
  [k \in 1..len |-> IF k = 1 \/ k = len - 1 THEN StartAlpha ELSE StartAlpha + 1]

FewRawTracks(len) ==
  {RawTrackOf([k \in 1..len |-> StartAlpha], <<0, 0, 0, 0>>)}
    \cup {RawTrackOf(LoopAlphas(len), sh) : sh \in RawShapes}

\* mutant of GenBuildFrom: the loop reads something besides the checkpoints,
\* so the same checkpoints may give another raw track
GenBuildFresh(raws) ==
  /\ pc = "create_track"
  /\ gen_pc = "build"
  /\ \E raw \in raws :
       /\ raw_track' = raw
       /\ built' = IF Truthy(sim_params_path) THEN <<checkpoints, raw>>
                   ELSE built
  /\ checkpoints' = <<>>
  /\ gen_pc' = "extract"
  /\ UNCHANGED <<config_vars, last_tile, pc, attempts, gen_track, road, track, car,
                 car_tiles, hull_position, counter_vars, fd_env_new_lap, action,
                 in_reset, return_vars, history_vars, contact_vars,
                 sim_params_path, builder, world_vars, start_alpha, stored_params, border,
                 first_gen, last_gen>>

GenBuildFrom(raws) ==
  /\ pc = "create_track"
  /\ gen_pc = "build"
  /\ IF built # <<>> /\ built[1] = checkpoints
       THEN raw_track' = built[2] /\ built' = built
       ELSE \E raw \in raws :
              /\ raw_track' = raw
              /\ built' = IF Truthy(sim_params_path) THEN <<checkpoints, raw>>
                          ELSE built
  /\ checkpoints' = <<>>
  /\ gen_pc' = "extract"
  /\ UNCHANGED <<config_vars, last_tile, pc, attempts, gen_track, road, track, car,
                 car_tiles, hull_position, counter_vars, fd_env_new_lap, action,
                 in_reset, return_vars, history_vars, contact_vars,
                 sim_params_path, builder, world_vars, start_alpha, stored_params, border,
                 first_gen, last_gen>>

(***************************************************************************)
(* Closed-loop extraction                                                  *)
(***************************************************************************)
\* pass_through_start at index i
PassThroughStart(trk, i, sa) ==
  PyAt(trk, i)[1] > sa /\ PyAt(trk, i - 1)[1] <= sa

\* the backward scan, entered with the loop variable i and the i2 found so
\* far: <<i1, i2>>, or <<-1, -1>> where the code returns False
RECURSIVE ScanLoop(_, _, _, _)
\* mutant of ScanLoop: the scan gives up at index 1 instead of index 0
ScanLoopStopsAtOne(trk, sa, i, i2) ==
  LET j == i - 1
  IN IF j <= 1 THEN <<-1, -1>>
     ELSE IF PassThroughStart(trk, j, sa) /\ i2 = -1
       THEN ScanLoop(trk, sa, j, j)
     ELSE IF PassThroughStart(trk, j, sa)
       THEN <<j, i2>>
     ELSE ScanLoop(trk, sa, j, i2)

ScanLoop(trk, sa, i, i2) ==
  LET j == i - 1
  IN IF j = 0 THEN <<-1, -1>>
     ELSE IF PassThroughStart(trk, j, sa) /\ i2 = -1
       THEN ScanLoop(trk, sa, j, j)
     ELSE IF PassThroughStart(trk, j, sa)
       THEN <<j, i2>>
     ELSE ScanLoop(trk, sa, j, i2)

ClosedLoop(trk, sa) == ScanLoop(trk, sa, Len(trk), -1)

\* track = track[i1 : i2 - 1]
Finalize(trk, loop) == PySlice(trk, loop[1], loop[2] - 1)

(***************************************************************************)
(* Glue check                                                              *)
(***************************************************************************)
\* math.cos / math.sin of a heading that is a multiple of pi / 2
Cos(b) == <<1, 0, -1, 0>>[((b \div QuarterTurn) % 4) + 1]
Sin(b) == <<0, 1, 0, -1>>[((b \div QuarterTurn) % 4) + 1]

\* well_glued_together, squared
GlueGapSquared(trk) ==
  LET first_beta == PyAt(trk, 0)[2]
      gx == Cos(first_beta) * (PyAt(trk, 0)[3] - PyAt(trk, -1)[3])
      gy == Sin(first_beta) * (PyAt(trk, 0)[4] - PyAt(trk, -1)[4])
  IN gx * gx + gy * gy

\* mutant of GlueFails: a gap of up to two steps is accepted
GlueFailsLoose(trk) ==
  GlueGapSquared(trk) > 4 * TRACK_DETAIL_STEP * TRACK_DETAIL_STEP

\* well_glued_together > TRACK_DETAIL_STEP
GlueFails(trk) == GlueGapSquared(trk) > TRACK_DETAIL_STEP * TRACK_DETAIL_STEP

\* _create_track returns False: its locals are gone and the retry loop of
\* reset goes round (failed attempts are counted up to MaxRetries)
ReturnFalse ==
  /\ attempts' = IF attempts < MaxRetries THEN attempts + 1 ELSE attempts
  /\ gen_pc' = "checkpoints"
  /\ raw_track' = <<>>
  /\ border' = <<>>
  /\ EndAttempt(Outcome("failed", <<>>, <<>>, <<>>))

GenExtract ==
  /\ pc = "create_track"
  /\ gen_pc = "extract"
  /\ IF ClosedLoop(raw_track, start_alpha) = <<-1, -1>>
       THEN ReturnFalse /\ UNCHANGED gen_track
       ELSE /\ gen_track' = Finalize(raw_track, ClosedLoop(raw_track, start_alpha))
            /\ gen_pc' = "glue"
            /\ UNCHANGED <<attempts, raw_track, border, first_gen, last_gen>>
  /\ UNCHANGED <<config_vars, last_tile, pc, road, track, car, car_tiles, hull_position,
                 counter_vars, fd_env_new_lap, action, in_reset, return_vars,
                 history_vars, contact_vars, sim_params_path, builder, world_vars, start_alpha,
                 checkpoints, stored_params, built>>

GenGlue ==
  /\ pc = "create_track"
  /\ gen_pc = "glue"
  /\ IF GlueFails(gen_track)
       THEN ReturnFalse
       ELSE /\ gen_pc' = "border"
            /\ UNCHANGED <<attempts, raw_track, border, first_gen, last_gen>>
  /\ UNCHANGED <<config_vars, last_tile, pc, gen_track, road, track, car, car_tiles,
                 hull_position, counter_vars, fd_env_new_lap, action, in_reset,
                 return_vars, history_vars, contact_vars, sim_params_path, builder, world_vars,
                 start_alpha, checkpoints, stored_params, built>>

(***************************************************************************)
(* Red-white borders on hard turns                                         *)
(***************************************************************************)
\* np.sign
Sign(x) == IF x > 0 THEN 1 ELSE IF x < 0 THEN -1 ELSE 0

\* beta1 - beta2 for the window position neg of sample i
BetaDelta(trk, i, neg) == PyAt(trk, i - neg)[2] - PyAt(trk, i - neg - 1)[2]

RECURSIVE SumSigns(_, _, _)
SumSigns(trk, i, neg) ==
  IF neg < 0 THEN 0
  ELSE Sign(BetaDelta(trk, i, neg)) + SumSigns(trk, i, neg - 1)

\* mutant of HardTurn: the common sign is not required
HardTurnAnySign(trk, i) ==
  \A neg \in 0..(BORDER_MIN_COUNT - 1) :
    Abs(BetaDelta(trk, i, neg)) * 5 > TRACK_TURN_RATE

\* `good` for sample i: every delta of the window exceeds
\* TRACK_TURN_RATE * 0.2 and all have one sign
HardTurn(trk, i) ==
  /\ \A neg \in 0..(BORDER_MIN_COUNT - 1) :
       Abs(BetaDelta(trk, i, neg)) * 5 > TRACK_TURN_RATE
  /\ Abs(SumSigns(trk, i, BORDER_MIN_COUNT - 1)) = BORDER_MIN_COUNT

\* `border` after the detection loop
DetectBorders(trk) == [k \in 1..Len(trk) |-> HardTurn(trk, k - 1)]

\* the inner loop of the propagation for sample i, from window position neg
\* on: border[i - neg] |= border[i], on the list itself
RECURSIVE PropagateFrom(_, _, _)
PropagateFrom(b, i, neg) ==
  IF neg >= BORDER_MIN_COUNT THEN b
  ELSE PropagateFrom([b EXCEPT ![((i - neg) % Len(b)) + 1] = @ \/ PyAt(b, i)],
                     i, neg + 1)

\* the propagation loop from sample i on (nb is the list after the inner
\* loop of sample i)
RECURSIVE Propagate(_, _)
Propagate(b, i) ==
  IF i >= Len(b) THEN b
  ELSE CHOOSE after \in {Propagate(nb, i + 1) :
                           nb \in {PropagateFrom(b, i, 0)}} : TRUE

\* `border` when the tile loop reads it
Borders(trk) == Propagate(DetectBorders(trk), 0)

\* track[i - neg - 1] raises IndexError on a list shorter than the window
BorderRaises(trk) == Len(trk) < BORDER_MIN_COUNT

GenBorder ==
  /\ pc = "create_track"
  /\ gen_pc = "border"
  /\ IF BorderRaises(gen_track)
       THEN /\ pc' = "error"
            /\ EndAttempt(Outcome("error", <<>>, <<>>, <<>>))
            /\ UNCHANGED <<border, gen_pc>>
       ELSE /\ border' = Borders(gen_track)
            /\ gen_pc' = "tiles"
            /\ UNCHANGED <<pc, first_gen, last_gen>>
  /\ UNCHANGED <<config_vars, last_tile, attempts, gen_track, road, track, car,
                 car_tiles, hull_position, counter_vars, fd_env_new_lap, action,
                 in_reset, return_vars, history_vars, contact_vars,
                 sim_params_path, builder, world_vars, start_alpha, checkpoints, stored_params,
                 raw_track, built>>

\* the tile loop and the exposed track, then return True
GenTilesWith(tbl) ==
  /\ gen_pc = "tiles"
  /\ CreateTrackOn(tbl, gen_track)
  /\ gen_pc' = "checkpoints"
  /\ EndAttempt(Outcome(IF pc' = "error" THEN "error" ELSE "ok",
                        gen_track, road', border))
  /\ raw_track' = <<>>
  /\ border' = <<>>
  /\ UNCHANGED <<sim_params_path, builder, start_alpha, checkpoints, stored_params,
                 built>>

(***************************************************************************)
(* Specification: track generation inside reset.  The retry loop runs the  *)
(* stages of _create_track; after a successful attempt the car is placed   *)
(* and the priming step ends, so that a later reset generates again.       *)
(***************************************************************************)
\* scenarios explored: none, and a tile range inside the track
GenScenarios == {None, 60}

\* parameter files explored: 2n numeric lines, and a file as
\* store_checkpoints writes it
GenPaths == {2 * NCheckpoints + 1, 2 * NCheckpoints + 3}

InitGen ==
  /\ InitWith(corners_scaled)
  /\ corner_num \in GenScenarios
  /\ lap_complete_percent = DefaultLapCompletePercent
  /\ sim_params_path \in GenPaths \cup {None}
  /\ GeneratorIdle

GenCheckpoints ==
  GenCheckpointsWith(NCheckpoints, {0}, RadDraws)

\* every raw track of the family for the checkpoints of a parameter file,
\* the smaller family for the samples of random mode
GenBuild ==
  GenBuildFrom(IF Truthy(sim_params_path) THEN RawTracks(MaxRawLen)
               ELSE FewRawTracks(MaxRawLen))

GenTiles == GenTilesWith(corners_scaled)

NextGen ==
  \/ Reset
  \/ GenCheckpoints
  \/ GenBuild
  \/ GenExtract
  \/ GenGlue
  \/ GenBorder
  \/ GenTiles
  \/ PlaceCar
  \/ StepEnd

SpecGen == InitGen /\ [][NextGen]_vars

\* a raw track that passes the loop extraction, the glue check and the
\* border detection
ClosesLoop(raw, sa) ==
  /\ ClosedLoop(raw, sa) # <<-1, -1>>
  /\ ~GlueFails(Finalize(raw, ClosedLoop(raw, sa)))
  /\ ~BorderRaises(Finalize(raw, ClosedLoop(raw, sa)))


(***************************************************************************)
(* Specification: the checkpoint generators on every parameter file and    *)
(* every draw, followed by the rest of reset on the smaller family of raw  *)
(* tracks                                                                  *)
(***************************************************************************)
InitCheckpoints ==
  /\ InitWith(corners_scaled)
  /\ corner_num = None
  /\ lap_complete_percent = DefaultLapCompletePercent
  /\ sim_params_path \in ParamPaths(NCheckpoints) \cup {None}
  /\ GeneratorIdle

GenCheckpointsAll ==
  GenCheckpointsWith(NCheckpoints, NoiseDraws, RadDraws)

GenBuildFew == GenBuildFrom(FewRawTracks(MaxRawLen))

NextCheckpoints ==
  \/ Reset
  \/ GenCheckpointsAll
  \/ GenBuildFew
  \/ GenExtract
  \/ GenGlue
  \/ GenBorder
  \/ GenTiles
  \/ PlaceCar
  \/ StepEnd

SpecCheckpoints == InitCheckpoints /\ [][NextCheckpoints]_vars

(***************************************************************************)
(* Specification: the retry loop of reset, on the smaller family of raw    *)
(* tracks in both modes, with the scheduling of the interpreter            *)
(***************************************************************************)
InitRetry ==
  /\ InitWith(corners_scaled)
  /\ corner_num = None
  /\ lap_complete_percent = DefaultLapCompletePercent
  /\ sim_params_path \in GenPaths \cup {None}
  /\ GeneratorIdle

\* one stage of the running _create_track
GenStage ==
  \/ GenCheckpoints
  \/ GenBuildFew
  \/ GenExtract
  \/ GenGlue
  \/ GenBorder
  \/ GenTiles

NextRetry ==
  \/ Reset
  \/ GenCheckpoints
  \/ GenBuildFew
  \/ GenExtract
  \/ GenGlue
  \/ GenBorder
  \/ GenTiles
  \/ PlaceCar
  \/ StepEnd

SpecRetry == InitRetry /\ [][NextRetry]_vars

\* reset runs _create_track to its end, stage after stage, and the draws of
\* np_random do not avoid for ever the samples whose track closes
FairSpecRetry ==
  /\ SpecRetry
  /\ WF_vars(GenStage)
  /\ SF_vars(GenBuildFew /\ ClosesLoop(raw_track', start_alpha))

(***************************************************************************)
(* Specification: the border detection on tracks that turn.  Reset runs    *)
(* one sample of random mode through the stages of _create_track; the      *)
(* builder loop leaves a raw track whose closed loop is a given cyclic     *)
(* heading sequence.                                                       *)
(***************************************************************************)
\* heading changes from one sample to the next, in mrad: a hard turn to the
\* right, none, exactly TRACK_TURN_RATE * 0.2 (not above it), a hard turn to
\* the left
DeltaDraws == {-400, 0, 62, 100}

\* heading of sample k (from 1) of a loop that turns by deltas[k] after it
RECURSIVE Headings(_, _)
Headings(deltas, k) ==
  IF k = 1 THEN 0 ELSE Headings(deltas, k - 1) + deltas[k - 1]

\* the raw track whose closed loop has Len(deltas) + 1 samples with these
\* headings, all at one position: the loop is preceded by one point and
\* followed by three
TurnRawTrack(deltas) ==
  LET len == Len(deltas) + 4
  IN [k \in 1..len |->
        <<LoopAlphas(len)[k],
          IF 2 <= k /\ k <= len - 2 THEN Headings(deltas, k - 1) ELSE 0,
          0, 0>>]

TurnRawTracks ==
  {TurnRawTrack(d) :
     d \in UNION {[1..(n - 1) -> DeltaDraws] :
                    n \in BORDER_MIN_COUNT..MaxBorderLen}}

InitBorder ==
  /\ InitWith(corners_scaled)
  /\ corner_num = None
  /\ lap_complete_percent = DefaultLapCompletePercent
  /\ sim_params_path = None
  /\ GeneratorIdle

GenCheckpointsOne ==
  GenCheckpointsWith(NCheckpoints, {0}, {TRACK_RAD \div 3})

GenBuildTurns == GenBuildFrom(TurnRawTracks)

NextBorder ==
  \/ Reset
  \/ GenCheckpointsOne
  \/ GenBuildTurns
  \/ GenExtract
  \/ GenGlue
  \/ GenBorder
  \/ GenTiles

SpecBorder == InitBorder /\ [][NextBorder]_vars

(***************************************************************************)
(* The builder loop, iteration by iteration.  Angles are in the unit of    *)
(* the checkpoints (a full turn is 4 * len(checkpoints)).  The position    *)
(* (x, y) and the heading beta are not followed: math.atan2(y, x) is any   *)
(* angle of Atan2Draws in every iteration, and the appended point carries  *)
(* the alpha of the iteration with beta = x = y = 0.                       *)
(***************************************************************************)
\* 2 * math.pi
FullTurn(cps) == 4 * Len(cps)

\* values of math.atan2(y, x) explored: on the axis, just past it, inside a
\* sector, behind the last checkpoint short of start_alpha, and just before
\* the axis
Atan2Draws == {0, 1, 5, -3, -1}

\* the innermost loop: from dest_i on to the end of the ring;
\* <<failed, dest_i>>
RECURSIVE ScanRing(_, _, _)
ScanRing(cps, dest_i, alpha) ==
  IF alpha <= PyAt(cps, dest_i % Len(cps))[1] THEN <<FALSE, dest_i>>
  ELSE IF (dest_i + 1) % Len(cps) = 0 THEN <<TRUE, dest_i + 1>>
  ELSE ScanRing(cps, dest_i + 1, alpha)

RECURSIVE FindDestination(_, _, _)
\* mutant of FindDestination: the cursor starts again at 0 after a wrap
FindDestinationRestart(cps, dest_i, alpha) ==
  LET scan == ScanRing(cps, dest_i, alpha)
  IN IF ~scan[1] THEN <<scan[2], alpha>>
     ELSE FindDestination(cps, 0, alpha - FullTurn(cps))

\* "Find destination from checkpoints": <<dest_i, alpha>> when the loop is
\* left
FindDestination(cps, dest_i, alpha) ==
  LET scan == ScanRing(cps, dest_i, alpha)
  IN IF ~scan[1] THEN <<scan[2], alpha>>
     ELSE FindDestination(cps, scan[2], alpha - FullTurn(cps))

\* mutant of LoopExit: the budget is tested before it is decremented
LoopExitLate(laps, no_freeze) == laps > MaxLaps \/ no_freeze = 0

\* the two breaks at the end of an iteration
LoopExit(laps, no_freeze) == laps > MaxLaps \/ no_freeze - 1 = 0

\* the locals before the loop
BuildStart ==
  /\ pc = "create_track"
  /\ gen_pc = "build"
  /\ builder' = [dest_i |-> 0, laps |-> 0, no_freeze |-> MaxIterations,
                 visited_other_side |-> FALSE, alpha |-> None]
  /\ raw_track' = <<>>
  /\ gen_pc' = "loop"
  /\ UNCHANGED <<config_vars, last_tile, pc, attempts, gen_track, road, track, car,
                 car_tiles, hull_position, counter_vars, fd_env_new_lap, action,
                 in_reset, return_vars, history_vars, contact_vars,
                 sim_params_path, world_vars, start_alpha, checkpoints, stored_params,
                 border, built, first_gen, last_gen>>

\* one iteration of the loop
BuildIterate ==
  /\ pc = "create_track"
  /\ gen_pc = "loop"
  /\ \E a \in Atan2Draws :
       LET lap   == builder.visited_other_side /\ a > 0
           laps  == IF lap THEN builder.laps + 1 ELSE builder.laps
           other == IF a < 0 THEN TRUE
                    ELSE IF lap THEN FALSE ELSE builder.visited_other_side
           alpha == IF a < 0 THEN a + FullTurn(checkpoints) ELSE a
           dest  == FindDestination(checkpoints, builder.dest_i, alpha)
           exit  == LoopExit(laps, builder.no_freeze)
       IN /\ raw_track' = Append(raw_track, <<dest[2], 0, 0, 0>>)
          /\ builder' = [dest_i |-> dest[1], laps |-> laps,
                         no_freeze |-> IF laps > MaxLaps THEN builder.no_freeze
                                       ELSE builder.no_freeze - 1,
                         visited_other_side |-> other, alpha |-> dest[2]]
          /\ gen_pc' = IF exit THEN "extract" ELSE "loop"
          /\ checkpoints' = IF exit THEN <<>> ELSE checkpoints
  /\ UNCHANGED <<config_vars, last_tile, pc, attempts, gen_track, road, track, car,
                 car_tiles, hull_position, counter_vars, fd_env_new_lap, action,
                 in_reset, return_vars, history_vars, contact_vars,
                 sim_params_path, world_vars, start_alpha, stored_params, border, built,
                 first_gen, last_gen>>

(***************************************************************************)
(* Specification: the builder loop inside reset, on one sample of random   *)
(* mode and on one parameter file                                          *)
(***************************************************************************)
InitBuilder ==
  /\ InitWith(corners_scaled)
  /\ corner_num = None
  /\ lap_complete_percent = DefaultLapCompletePercent
  /\ sim_params_path \in {None, 2 * NCheckpoints + 1}
  /\ GeneratorIdle

GenCheckpointsJitter ==
  GenCheckpointsWith(NCheckpoints, {3}, {TRACK_RAD \div 3})

NextBuilder ==
  \/ Reset
  \/ GenCheckpointsJitter
  \/ BuildStart
  \/ BuildIterate

SpecBuilder == InitBuilder /\ [][NextBuilder]_vars

\* _create_track runs its loop iteration after iteration
FairSpecBuilder == SpecBuilder /\ WF_vars(BuildIterate)

(***************************************************************************)
(* The legacy environment of src/test.py.  It has no scenario, no lap      *)
(* flag and no parameter path: its tile range is fixed, its contact        *)
(* listener only credits tiles, and step ends an episode through           *)
(* self.last_tile.  reset and the first half of step are those of the      *)
(* current environment.                                                    *)
(***************************************************************************)
\* start_point, end_point (50, 111 in the source), scaled to the tracks of
\* this model
LegacyRange == <<1, 3>>

\* self.road after the tile loop over range(start_point, end_point)
LegacyTiles(trk) ==
  LET rng == PyRange(LegacyRange[1], LegacyRange[2])
      ok  == SelectSeq(rng, LAMBDA i : i < Len(trk))
  IN [k \in DOMAIN ok |-> RoadTile(trk, ok[k])]

\* Car(self.world, *self.track[0][1:4])
LegacyCar(trk) ==
  [init_angle |-> PyAt(trk, 0)[2], init_x |-> PyAt(trk, 0)[3],
   init_y |-> PyAt(trk, 0)[4], steer |-> 0, gas |-> 0, brake |-> 0]

InitLegacy ==
  /\ InitWith(corners_scaled)
  /\ corner_num = None
  /\ lap_complete_percent = DefaultLapCompletePercent
  /\ sim_params_path = None
  /\ GeneratorIdle

\* _create_track returns True with the finalized track trk
LegacyCreateTrackOn(trk) ==
  /\ pc = "create_track"
  /\ attempts' = 0
  /\ gen_track' = trk
  /\ road' = LegacyTiles(trk)
  /\ IF LegacyRange[2] > Len(trk)
       THEN pc' = "error" /\ track' = track
       ELSE pc' = "place_car"
            /\ track' = PySlice(trk, LegacyRange[1], LegacyRange[2])
  /\ world_bodies' = world_bodies (+) TileBodies(road')
  /\ road_poly' = road_poly \o RoadPolys(road', <<>>)
  /\ UNCHANGED <<config_vars, last_tile, car, car_tiles, hull_position,
                 counter_vars, fd_env_new_lap, action, in_reset, return_vars,
                 history_vars, contact_vars, gen_vars>>

LegacyCreateTrack ==
  \E n \in TrackLens : LegacyCreateTrackOn(FinalizedTrack(n, 1))

\* reset after the retry loop: the car, then step(None)
LegacyPlaceCar ==
  /\ pc = "place_car"
  /\ car' = <<LegacyCar(track)>>
  /\ world_bodies' = world_bodies (+) CarBodies
  /\ action' = NoAction
  /\ in_reset' = TRUE
  /\ pc' = "world"
  /\ UNCHANGED <<config_vars, last_tile, attempts, gen_track, road, track,
                 car_tiles, hull_position, counter_vars, fd_env_new_lap,
                 return_vars, history_vars, contact_vars, road_poly, gen_vars>>

\* FrictionDetector._contact of the legacy environment
LegacyContactEvent(begin, u1, u2) ==
  /\ pc = "world"
  /\ PhysicsAllows(begin, u1, u2)
  /\ contact_exit' = ContactExit(begin, u1, u2)
  /\ IF ReachesTileLogic(u1, u2)
       THEN LET k == ContactTile(u1, u2).id
                w == ContactObj(u1, u2).id
            IN /\ car_tiles' =
                    [car_tiles EXCEPT ![w] = IF begin THEN @ \cup {k} ELSE @ \ {k}]
               /\ IF CreditsTile(begin, u1, u2)
                    THEN /\ road' = [road EXCEPT ![k].road_visited = TRUE]
                         /\ reward' = reward + TileCredit(track)
                         /\ tile_visited_count' = tile_visited_count + 1
                    ELSE UNCHANGED <<road, reward, tile_visited_count>>
       ELSE UNCHANGED <<car_tiles, road, reward, tile_visited_count>>
  /\ UNCHANGED <<config_vars, last_tile, pc, attempts, gen_track, track, car,
                 hull_position, prev_reward, t, new_lap, fd_env_new_lap, lap_met,
                 action, in_reset, return_vars, history_vars, gen_vars,
                 world_vars>>

LegacyContact ==
  \E begin \in BOOLEAN, u1 \in Bodies, u2 \in Bodies :
    LegacyContactEvent(begin, u1, u2)

\* the done flag the legacy step returns (flag: self.last_tile at the call)
LegacyDone(a, flag, count, trk, pos) ==
  /\ a # NoAction
  /\ \/ flag
     \/ OutOfPlayfield(pos)

\* self.last_tile after the legacy step
LegacyLastTile(a, flag, count, trk) ==
  IF a = NoAction THEN flag ELSE ~flag /\ count = Len(trk)

\* world.Step is over with the hull at pos: the rest of the legacy step
LegacyStepEndAt(pos) ==
  /\ pc = "world"
  /\ hull_position' = pos
  /\ t' = t + 1
  /\ reward' = RewardAfterStep(action, reward, track)
  /\ prev_reward' = PrevRewardAfterStep(action, reward, prev_reward, track)
  /\ step_reward' = StepReward(action, reward, prev_reward, track, pos)
  /\ done' = LegacyDone(action, last_tile, tile_visited_count, track, pos)
  /\ last_tile' = LegacyLastTile(action, last_tile, tile_visited_count, track)
  /\ returned' = IF in_reset THEN "reset" ELSE "step"
  /\ frames' = IF action # NoAction THEN frames + 1 ELSE frames
  /\ reward_sum' = reward_sum + step_reward'
  /\ out_seen' = (out_seen \/ (action # NoAction /\ OutOfPlayfield(pos)))
  /\ done_seen' = (done_seen \/ done')
  /\ full_frame' = IF full_frame = 0 /\ action # NoAction
                       /\ tile_visited_count = Len(track)
                    THEN frames + 1 ELSE full_frame
  /\ contact_exit' = "none"
  /\ pc' = "idle"
  /\ UNCHANGED <<config_vars, attempts, gen_track, road, track, car, car_tiles,
                 tile_visited_count, new_lap, fd_env_new_lap, action, in_reset,
                 lap_met, gen_vars, world_vars>>

LegacyStepEnd == \E pos \in HullPositions : LegacyStepEndAt(pos)

NextLegacy ==
  \/ Reset
  \/ CreateTrackFail
  \/ LegacyCreateTrack
  \/ LegacyPlaceCar
  \/ Step
  \/ LegacyContact
  \/ LegacyStepEnd

SpecLegacy == InitLegacy /\ [][NextLegacy]_vars

(***************************************************************************)
(* Properties                                                              *)
(***************************************************************************)
\* every tile of self.road has been visited
AllVisited == road # <<>> /\ \A k \in DOMAIN road : road[k].road_visited

\* number of tiles of self.road whose visited flag is set
VisitedTiles == Cardinality({k \in DOMAIN road : road[k].road_visited})

\* an action step has just returned to the caller
ActionStepReturned == pc = "idle" /\ returned = "step"

\* reset has just returned to the caller
ResetReturned == pc = "idle" /\ returned = "reset"

\* this step of the model is the end of an action step / of the priming step
ActionStepEnds == pc = "world" /\ pc' = "idle" /\ action # NoAction
PrimingStepEnds == pc = "world" /\ pc' = "idle" /\ action = NoAction

\* the hull position read by the last step is outside the playfield
HullOut ==
  \/ hull_position[1] > PLAYFIELD \/ hull_position[1] < -PLAYFIELD
  \/ hull_position[2] > PLAYFIELD \/ hull_position[2] < -PLAYFIELD

\* this step of the model is a BeginContact callback between a wheel and
\* the tile at position k of self.road
BeginContactOn(k) ==
  /\ pc = "world"
  /\ pc' = "world"
  /\ \E w \in Wheels : k \notin car_tiles[w] /\ k \in car_tiles'[w]

\* C1: a contact-begin between the car and a tile whose visited flag is
\* already set leaves the cumulative reward, the visited-tile count and the
\* tiles unchanged; a contact-begin on an unvisited tile adds exactly
\* 1000/len(track) and counts the tile once.
C1_TileVisitIdempotent ==
  [][\A k \in DOMAIN road :
       BeginContactOn(k) =>
         IF road[k].road_visited
           THEN /\ reward' = reward
                /\ tile_visited_count' = tile_visited_count
                /\ road' = road
           ELSE /\ (reward' - reward) * Len(track) = 1000 * RewardDen(track)
                /\ tile_visited_count' = tile_visited_count + 1]_vars

\* C1 witness: the last callback was a contact-begin on a visited tile
C1_Witness ==
  /\ pc = "world"
  /\ contact_exit = "already_visited"
  /\ tile_visited_count >= 1

\* C2 (as claimed): after an action step of an episode in which every tile
\* was visited and the car never left the playfield, the cumulative reward
\* is 1000 - 0.1 * F and equals the sum of the returned step rewards.
C2_RewardAccounting ==
  (ActionStepReturned /\ AllVisited /\ ~out_seen) =>
    /\ 10 * reward = RewardDen(track) * (10000 - frames)
    /\ reward_sum = reward

\* C3: an action step that reads a hull position outside the playfield
\* returns step reward exactly -100 and done = True.
C3_OutOfBounds ==
  (ActionStepReturned /\ HullOut) =>
    /\ step_reward = -100 * RewardDen(track)
    /\ done

\* C3 witness: the first action step of an episode ends outside the
\* playfield with tile credit pending, and returns -100
C3_Witness ==
  /\ ActionStepReturned
  /\ HullOut
  /\ frames = 1
  /\ tile_visited_count > 0
  /\ reward - prev_reward = 0
  /\ reward > 0
  /\ step_reward = -100 * RewardDen(track)
  /\ done

\* C4 (as claimed): an action step at whose end every created tile has been
\* visited returns done = True, in every scenario.
C4_AllTilesDone == (ActionStepReturned /\ AllVisited) => done

\* C5 (as claimed): once tile 0 was credited with the visited fraction above
\* lap_complete_percent, an action step returns done = True although not
\* every tile has been visited.
C5_LapCompletion == (ActionStepReturned /\ lap_met /\ ~AllVisited) => done

\* C6 (as claimed): once an action step has returned done = True, every
\* later action step of the episode returns done = True.
C6_TerminalSticky == [][(ActionStepEnds /\ done_seen) => done']_vars

\* C6 (amended): the done flag is not latched.  An action step after one
\* that returned done = True returns done = True exactly when the visited
\* count equals len(track), the lap flag is set or the hull is outside the
\* playfield at that step.
C6_DoneRecomputed ==
  [][(ActionStepEnds /\ done_seen) =>
       (done' <=> \/ tile_visited_count' = Len(track')
                  \/ new_lap'
                  \/ HullOut')]_vars

\* C6 witness: an action step returned done = True and a later one did not
C6_Witness ==
  /\ ActionStepReturned
  /\ frames >= 2
  /\ done_seen
  /\ ~done

\* C7: the step without action returns reward 0 and done = False and
\* changes neither the cumulative reward nor the snapshot, wherever the
\* hull is and however many tiles are visited.
C7_PrimingStep ==
  [][PrimingStepEnds =>
       /\ step_reward' = 0
       /\ done' = FALSE
       /\ reward' = reward
       /\ prev_reward' = prev_reward]_vars

\* C7 witness: the priming step ended outside the playfield with every
\* tile visited, and returned (0, False) with no penalty applied
C7_Witness ==
  /\ ResetReturned
  /\ HullOut
  /\ AllVisited
  /\ step_reward = 0
  /\ ~done
  /\ prev_reward = 0
  /\ reward * Len(track) = tile_visited_count * 1000 * RewardDen(track)

\* C8 (as claimed): when reset returns, the counters are zero, the lap flag
\* is false and every tile is unvisited.
C8_ResetPostcondition ==
  ResetReturned =>
    /\ reward = 0
    /\ prev_reward = 0
    /\ tile_visited_count = 0
    /\ ~new_lap
    /\ \A k \in DOMAIN road : ~road[k].road_visited

\* C8 (amended): reset zeroes the counters before the track is generated;
\* when it returns, the snapshot is zero and the lap flag false, and the
\* cumulative reward and the visited count hold exactly the credit of the
\* tiles contacted during the priming step (1000/len(track) each, no
\* per-step penalty).
C8_ResetPostconditionPrimed ==
  /\ pc \in {"create_track", "place_car"} =>
       /\ reward = 0
       /\ prev_reward = 0
       /\ tile_visited_count = 0
       /\ ~new_lap
       /\ \A k \in DOMAIN road : ~road[k].road_visited
  /\ ResetReturned =>
       /\ prev_reward = 0
       /\ ~new_lap
       /\ frames = 0
       /\ tile_visited_count = VisitedTiles
       /\ reward * Len(track) = tile_visited_count * 1000 * RewardDen(track)

\* C8 witness: a reset after an earlier episode (whose lap condition the
\* detector still remembers) returns with tiles already credited
C8_Witness ==
  /\ ResetReturned
  /\ tile_visited_count > 0
  /\ fd_env_new_lap
  /\ ~lap_met

\* C9: for a corner scenario with range [lo, hi) on a finalized track of at
\* least hi points, the exposed track is full_track[lo:hi], of hi - lo
\* points (67 for scenario 85), and the car is created with the heading and
\* position of its first point and the heading offset of the scenario.
C9_ScenarioSlicing ==
  (/\ corner_num > 10
   /\ pc \in {"place_car", "world"}
   /\ Len(gen_track) >= corners[corner_num].hi) =>
     LET lo == corners[corner_num].lo
         hi == corners[corner_num].hi
     IN /\ Len(track) = hi - lo
        /\ \A j \in 1..(hi - lo) : track[j] = gen_track[lo + j]
        /\ corner_num = 85 => Len(track) = 67
        /\ pc = "world" =>
             /\ Len(car) = 1
             /\ car[1].init_angle = gen_track[lo + 1][2]
             /\ car[1].init_x = gen_track[lo + 1][3]
             /\ car[1].init_y = gen_track[lo + 1][4]
             /\ car[1].add_angle = corners[corner_num].angle

\* C9 witness: scenario 85 on a track of exactly 125 points, car placed
C9_Witness ==
  /\ pc = "world"
  /\ corner_num = 85
  /\ Len(gen_track) = 125
  /\ Len(track) = 67
  /\ car # <<>>

\* C10: every emitted tile carries as idx its position in the finalized
\* (unsliced) track, consecutive tiles have idx increasing by 1, and under
\* a corner scenario with range [lo, hi) the indices are lo .. hi - 1.
C10_StableTileIndices ==
  LET ranged == corner_num > 10
      lo == IF ranged THEN corners[corner_num].lo ELSE 0
      hi == IF ranged THEN corners[corner_num].hi ELSE Len(gen_track)
  IN /\ \A k \in DOMAIN road :
          /\ road[k].idx = lo + k - 1
          /\ road[k].idx < Len(gen_track)
          /\ road[k].quad[1] = gen_track[road[k].idx + 1]
          /\ k > 1 => road[k].idx = road[k - 1].idx + 1
     /\ pc \in {"place_car", "world"} => Len(road) = hi - lo

\* C10 witness: scenario 85 emits the tiles 58 .. 124
C10_Witness ==
  /\ pc = "place_car"
  /\ corner_num = 85
  /\ Len(road) = 67
  /\ road[1].idx = 58
  /\ road[67].idx = 124

\* original index of a track point: the Track Builder input numbers the
\* points of the finalized track in its first field
OriginalIndex(p) == p[1]

\* C11 (as claimed): for every scenario of the table the original indices of
\* the emitted tiles are those of the points of the exposed track, so there
\* are len(track) tiles and the visited count never exceeds len(track).
C11_TilesTrackAgree ==
  (pc \in {"place_car", "world", "idle"} /\ road # <<>>) =>
    /\ {road[k].idx : k \in DOMAIN road} =
         {OriginalIndex(track[j]) : j \in DOMAIN track}
    /\ Len(road) = Len(track)
    /\ tile_visited_count <= Len(track)

\* C17 (as claimed): an environment whose scenario identifier is not a key
\* of the scenario table does not exist after construction, so no reset ever
\* runs on it.
C17_UnknownScenarioFatal ==
  (corner_num \notin DOMAIN corners_scaled) =>
    pc \notin {"create_track", "place_car", "world"}

\* C12 (as claimed): once the two start-angle crossings i1 < i2 are found,
\* the finalized track keeps i2 - i1 points, the tile count the generator
\* reports.
C12_ReportedTileCount ==
  (pc = "create_track" /\ gen_pc \in {"glue", "border", "tiles"}) =>
    LET loop == ClosedLoop(raw_track, start_alpha)
    IN /\ loop[1] < loop[2]
       /\ Len(gen_track) = loop[2] - loop[1]

\* C13: a generation that reports success has a perpendicular gap between
\* the first and the last point of the finalized track of at most
\* TRACK_DETAIL_STEP; with a larger gap the attempt returns False from the
\* glue check, and no tile exists before the glue check has passed.
C13_LoopClosure ==
  [][/\ (pc = "create_track" /\ gen_pc = "glue") =>
          IF GlueGapSquared(gen_track) > TRACK_DETAIL_STEP * TRACK_DETAIL_STEP
            THEN /\ gen_pc' = "checkpoints"
                 /\ pc' = "create_track"
                 /\ road' = <<>>
                 /\ track' = track
            ELSE gen_pc' = "border"
     /\ (pc = "create_track" /\ gen_pc \in {"build", "extract", "glue"}) =>
          road = <<>>
     /\ (pc = "create_track" /\ pc' = "place_car") =>
          GlueGapSquared(gen_track') <= TRACK_DETAIL_STEP * TRACK_DETAIL_STEP]_vars

\* C13 witness: success with a gap of exactly one step length
C13_Witness ==
  /\ pc = "place_car"
  /\ road # <<>>
  /\ GlueGapSquared(gen_track) = TRACK_DETAIL_STEP * TRACK_DETAIL_STEP

C15_CheckpointPinning ==
  (pc = "create_track" /\ gen_pc = "build") =>
    /\ Len(checkpoints) = NCheckpoints
    /\ checkpoints[1][1] = 0
    /\ 2 * checkpoints[1][2] = 3 * TRACK_RAD
    /\ checkpoints[NCheckpoints][1] = 4 * (NCheckpoints - 1)
    /\ 2 * checkpoints[NCheckpoints][2] = 3 * TRACK_RAD
    /\ 2 * start_alpha = -4

\* C15 witness: random mode drew a non-zero jitter for the first and for
\* the last checkpoint
C15_Witness ==
  /\ pc = "create_track"
  /\ gen_pc = "build"
  /\ ~Truthy(sim_params_path)
  /\ stored_params[1] > 0
  /\ stored_params[NCheckpoints] > 0

\* C16 (as claimed): a parameter file of fewer than 2N lines makes
\* load_checkpoints raise, so generation never gets past it.
C16_MalformedFile ==
  (/\ Truthy(sim_params_path)
   /\ Len(ParamFile(NCheckpoints, sim_params_path)) < 2 * NCheckpoints
   /\ pc = "create_track") =>
     gen_pc = "checkpoints"

\* C18 (as claimed): in either mode the retry loop of reset comes to an end:
\* a reset that has started generating eventually gets past _create_track.
C18_ResetCompletes == (pc = "create_track") ~> (pc # "create_track")

\* heading change into sample j of the cyclic sequence, and whether it
\* exceeds 0.2 * TRACK_TURN_RATE in magnitude
HeadingDelta(trk, j) == PyAt(trk, j)[2] - PyAt(trk, j - 1)[2]
ExceedsTurnRate(d) == Abs(d) * 5 > TRACK_TURN_RATE

\* the deltas into samples i, i - 1, ..., i - (count - 1), taken cyclically,
\* all exceed the threshold with one common sign
SameSignRun(trk, i, count) ==
  /\ \A neg \in 0..(count - 1) : ExceedsTurnRate(HeadingDelta(trk, i - neg))
  /\ \/ \A neg \in 0..(count - 1) : HeadingDelta(trk, i - neg) > 0
     \/ \A neg \in 0..(count - 1) : HeadingDelta(trk, i - neg) < 0

\* sample i is a hard-turn candidate
Candidate(trk, i) == SameSignRun(trk, i, BORDER_MIN_COUNT)

\* the border detection and propagation have run on gen_track
BordersComputed == pc = "create_track" /\ gen_pc = "tiles"

\* C19: on a cyclic heading sequence without a window of BORDER_MIN_COUNT
\* consecutive deltas that all exceed 0.2 * TRACK_TURN_RATE with one common
\* sign, detection and propagation flag no sample
C19_BorderRunOneShort ==
  (BordersComputed
     /\ \A i \in 0..(Len(gen_track) - 1) : ~Candidate(gen_track, i))
    => \A k \in DOMAIN border : ~border[k]

\* C19 witness: a same-sign run of BORDER_MIN_COUNT - 1 qualifying deltas,
\* no run of BORDER_MIN_COUNT, and nothing is flagged
C19_Witness ==
  /\ BordersComputed
  /\ \A i \in 0..(Len(gen_track) - 1) : ~Candidate(gen_track, i)
  /\ \E i \in 0..(Len(gen_track) - 1) :
       SameSignRun(gen_track, i, BORDER_MIN_COUNT - 1)
  /\ \A k \in DOMAIN border : ~border[k]

\* C20 (as claimed): after detection and propagation sample j is flagged
\* exactly if some candidate i has j among i, i - 1, ...,
\* i - (BORDER_MIN_COUNT - 1), taken cyclically
C20_BorderPropagationExact ==
  BordersComputed =>
    \A j \in 0..(Len(gen_track) - 1) :
      PyAt(border, j) <=>
        \E i \in 0..(Len(gen_track) - 1), neg \in 0..(BORDER_MIN_COUNT - 1) :
          Candidate(gen_track, i) /\ (i - neg) % Len(gen_track) = j

\* indices 1..len-1 of the raw track at which the angle passes start_alpha
Crossings(trk, sa) ==
  {i \in 1..(Len(trk) - 1) : PyAt(trk, i)[1] > sa /\ PyAt(trk, i - 1)[1] <= sa}

\* the largest member of a non-empty set of indices
Last(S) == CHOOSE i \in S : \A j \in S : j <= i

\* C21: the loop extraction fails (returns False, no tile created) exactly if
\* the raw track has fewer than two start-angle crossings; otherwise i2 is
\* the last crossing and i1 the one before it
C21_ClosedLoopExtraction ==
  [][(pc = "create_track" /\ gen_pc = "extract") =>
       LET cr == Crossings(raw_track, start_alpha)
       IN IF Cardinality(cr) < 2
            THEN /\ gen_pc' = "checkpoints"
                 /\ pc' = "create_track"
                 /\ road' = <<>>
                 /\ gen_track' = gen_track
            ELSE /\ gen_pc' = "glue"
                 /\ ClosedLoop(raw_track, start_alpha)
                      = <<Last(cr \ {Last(cr)}), Last(cr)>>
                 /\ gen_track' = PySlice(raw_track, Last(cr \ {Last(cr)}),
                                         Last(cr) - 1)]_vars

\* C21 witness: the extraction has succeeded on a raw track with more than
\* two crossings, the first of them at index 1
C21_Witness ==
  /\ pc = "create_track"
  /\ gen_pc = "glue"
  /\ Cardinality(Crossings(raw_track, start_alpha)) > 2
  /\ 1 \in Crossings(raw_track, start_alpha)
  /\ gen_track # <<>>

\* the builder loop is running / has just been left
InBuilderLoop == pc = "create_track" /\ gen_pc = "loop"

\* C22: the builder loop is always left; every iteration appends exactly one
\* point, and the loop is left at the first iteration at whose end the lap
\* count exceeds the limit or the iteration budget is used up; the raw track
\* has between 1 point and as many points as the budget
C22_BuilderTermination ==
  /\ [][/\ InBuilderLoop =>
             /\ Len(raw_track') = Len(raw_track) + 1
             /\ Len(raw_track) < MaxIterations
             /\ builder.laps <= MaxLaps
             /\ (gen_pc' # "loop") <=>
                   (builder'.laps > MaxLaps \/ Len(raw_track') = MaxIterations)
             /\ gen_pc' \in {"loop", "extract"}
        /\ (InBuilderLoop /\ gen_pc' = "extract") =>
             (1 <= Len(raw_track') /\ Len(raw_track') <= MaxIterations)]_vars
  /\ (InBuilderLoop ~> (gen_pc = "extract"))

\* C22 witness: the loop was left on the lap count with budget to spare
C22_Witness ==
  /\ pc = "create_track"
  /\ gen_pc = "extract"
  /\ builder # <<>>
  /\ builder.laps > MaxLaps
  /\ Len(raw_track) < MaxIterations

\* C23: in every iteration the destination search ends after at most one
\* wrap of alpha by a full turn, the checkpoint it selects has an angle not
\* below the alpha recorded in the appended point, and dest_i never
\* decreases
C23_DestinationSelection ==
  [][InBuilderLoop =>
       LET point == raw_track'[Len(raw_track')]
       IN /\ builder'.dest_i >= builder.dest_i
          /\ PyAt(checkpoints, builder'.dest_i % Len(checkpoints))[1]
               >= point[1]
          /\ point[1] = builder'.alpha
          /\ point[1] >= -FullTurn(checkpoints)
          /\ point[1] < FullTurn(checkpoints)]_vars

\* C23 witness: an iteration wrapped alpha while the cursor was past the
\* first pass over the ring
C23_Witness ==
  /\ InBuilderLoop
  /\ builder.alpha # None
  /\ builder.alpha < 0
  /\ builder.dest_i > Len(checkpoints)

\* C24 (as claimed): the checkpoints either generator returns are ordered by
\* non-decreasing angle, for every jitter drawn and for every jitter read
C24_CheckpointOrder ==
  (pc = "create_track" /\ gen_pc = "build") =>
    \A c \in 1..(Len(checkpoints) - 1) :
      checkpoints[c][1] <= checkpoints[c + 1][1]

\* C25: when reset returns, the bodies of the world are the tiles of the
\* road just generated and the car just placed, each once, and road_poly
\* holds one road polygon per tile of that road and no polygon of any other
\* tile: nothing of the previous episode and nothing of a failed attempt is
\* left
C25_TileLifecycle ==
  ResetReturned =>
    /\ world_bodies = TileBodies(road) (+) CarBodies
    /\ \A b \in BagToSet(world_bodies) : CopiesIn(b, world_bodies) = 1
    /\ \A k \in DOMAIN road :
         Cardinality({j \in DOMAIN road_poly :
                        road_poly[j] = <<"road", road[k].idx>>}) = 1
    /\ \A j \in DOMAIN road_poly :
         \E k \in DOMAIN road : road_poly[j][2] = road[k].idx

\* C25 witness: reset has returned for a second episode (the lap event was
\* seen, but not in this episode, where no tile is visited yet)
C25_Witness ==
  /\ ResetReturned
  /\ fd_env_new_lap
  /\ tile_visited_count = 0
  /\ road # <<>>
  /\ BagCardinality(world_bodies) > Len(road)

(***************************************************************************)
(* The legacy environment: when done is returned                           *)
(***************************************************************************)
\* C26: in the legacy environment, in an episode whose action steps so far
\* returned done = False, an action step that ends inside the playfield
\* returns done = True exactly when it is the action step right after the
\* first one that ended with tile_visited_count = len(track).
C26_LegacyTerminationTiming ==
  [][(ActionStepEnds /\ ~done_seen /\ ~OutOfPlayfield(hull_position')) =>
       (done' <=> (full_frame # 0 /\ frames' = full_frame + 1))]_vars

\* C30: in the legacy environment the first action step after a reset
\* returns done = True only if it finds the car outside the playfield.
C30_LegacyResetClearsTermination ==
  [][(ActionStepEnds /\ frames = 0) =>
       (done' => OutOfPlayfield(hull_position'))]_vars

(***************************************************************************)
(* The episode counters                                                    *)
(***************************************************************************)
\* the tiles of self.road whose road_visited flag is set
VisitedSet(rd) == {k \in DOMAIN rd : rd[k].road_visited}

\* a step of reset's first half: the one step that starts a new episode
ResetStep == pc = "idle" /\ pc' = "create_track"

\* C27: tile_visited_count is always the number of road tiles whose visited
\* flag is set, and on every step other than the start of a new episode no
\* set flag becomes unset and tile_visited_count does not decrease.
C27_CountMatchesFlags ==
  /\ [](tile_visited_count = Cardinality(VisitedSet(road)))
  /\ [][~ResetStep =>
          /\ tile_visited_count' >= tile_visited_count
          /\ \A k \in VisitedSet(road) : k \in VisitedSet(road')]_vars

\* a wheel came back to a tile it had visited, after another tile was
\* credited: the count stays at the number of flags
C27_Witness ==
  /\ pc = "world"
  /\ contact_exit = "already_visited"
  /\ tile_visited_count >= 2

\* C28: after every action step of an episode in which no action step found
\* the car out of the playfield, the step rewards returned since reset sum
\* up to self.reward and self.prev_reward equals self.reward; the first
\* action step, when inside the playfield, returns all of self.reward, the
\* tile credit of the step reset made included.
C28_StepRewardsTelescope ==
  /\ []((ActionStepReturned /\ ~out_seen) =>
          (reward_sum = reward /\ prev_reward = reward))
  /\ [][(ActionStepEnds /\ frames = 0 /\ ~OutOfPlayfield(hull_position')) =>
          step_reward' = reward']_vars

\* the second action step of an episode inside the playfield has returned,
\* with a tile credited
C28_Witness ==
  /\ ActionStepReturned
  /\ ~out_seen
  /\ frames = 2
  /\ tile_visited_count >= 1

(***************************************************************************)
(* Contact callbacks that credit nothing                                   *)
(***************************************************************************)
\* this step of the model is a contact callback
ContactStep == pc = "world" /\ pc' = "world"

\* the paths through _contact that end before or beside the credit: no
\* tile among the two bodies, a tile and a body without a tiles set, and
\* EndContact
NonCreditingExits == {"no_tile", "no_tiles_set", "removed"}

\* C29: a contact callback that takes one of the non-crediting paths leaves
\* self.reward, tile_visited_count, the visited flag of every tile and the
\* lap flags as they were.
C29_NonCreditingContacts ==
  [][(ContactStep /\ contact_exit' \in NonCreditingExits) =>
       /\ reward' = reward
       /\ tile_visited_count' = tile_visited_count
       /\ new_lap' = new_lap
       /\ fd_env_new_lap' = fd_env_new_lap
       /\ DOMAIN road' = DOMAIN road
       /\ \A k \in DOMAIN road :
            road'[k].road_visited = road[k].road_visited]_vars

\* the hull has touched a tile while no tile was visited, and nothing was
\* credited
C29_Witness ==
  /\ pc = "world"
  /\ contact_exit = "no_tiles_set"
  /\ road # <<>>
  /\ tile_visited_count = 0
  /\ reward = 0

====
